---- MODULE Spec2Model ----
(***************************************************************************)
(* Model of the VairamAI chat client: the conversation state kept by       *)
(* src/App.tsx, the UI gates of src/components/ChatWindow.tsx,             *)
(* MessageBubble.tsx and Sidebar.tsx, and the request builder / tool-call  *)
(* resolver of src/services/geminiService.ts.                              *)
(*                                                                         *)
(* Text is modelled by TLA+ strings (Len, \o and SubSeq work on them).     *)
(* An event handler runs to its first await as one step; every await on    *)
(* the remote service is a suspension point at which other UI events may   *)
(* run.  A handler reads the state variables of the render it was created  *)
(* in: the values it captured stay fixed for the rest of the turn, while   *)
(* functional updaters (setSessions(prev => ...)) apply to the state at    *)
(* the moment they run.                                                    *)
(***************************************************************************)
EXTENDS Integers, Sequences, FiniteSets, TLC

VARIABLES
    user,              \* App.tsx:12   null or the logged-in user
    isAuthLoading,     \* App.tsx:25
    sessions,          \* App.tsx:21   ordered list of ChatSession
    currentSessionId,  \* App.tsx:22
    loadingState,      \* App.tsx:23
    now,               \* the value Date.now() returned last
    turns,             \* the turns (send or edit) suspended at an await
    event              \* the handler that ran last, with its arguments

vars == <<user, isAuthLoading, sessions, currentSessionId, loadingState, now, turns, event>>

\* everything but the record of the last handler
core == <<user, isAuthLoading, sessions, currentSessionId, loadingState, now, turns>>

-----------------------------------------------------------------------------
\* Bounds

\* Handlers that start a turn or create a session stop once Date.now() has
\* reached MaxClock.
MaxClock == 3

\* Turns suspended at the same time.
MaxInFlight == 2

\* Messages in a history handed directly to the request builder.
MaxHistory == 2

-----------------------------------------------------------------------------
\* Values

NULL == "null"

IDLE == "IDLE"
THINKING == "THINKING"
ERROR == "ERROR"

MOCK_USER == "usr_guest"

NewConversation == "New Conversation"
ImageAnalysis == "Image Analysis"

TurnApology == "I apologize, but I encountered an error while processing your request. Please try again."
ImageErrorApology == "I apologize, but I encountered an error while attempting to generate the image."
NoImageApology == "I tried to generate an image, but no image was returned."
ImageConfirmation == "I have generated the image for you."
NoResponseText == "I processed your request but have no text response."

TitleLimit == 30

\* what the user can type in the composer, in a message editor and in the
\* rename box
SendTexts == {"", " ", "hi"}
EditTexts == {" ", "yo"}
RenameTexts == {"", " r"}

\* what the remote service can answer
ReplyTexts == {"", "ok"}
ToolCalls == {"none", "generate_image", "other_tool"}
ImageBytes == "QUJD"

DataUri(mime, payload) == "data:" \o mime \o ";base64," \o payload

UserAttachment ==
    [type |-> "image", content |-> DataUri("image/png", "aGk="),
     mimeType |-> "image/png", name |-> "a.png"]

\* what the composer can hold when the user sends: text and attachments
Composed ==
    {<<text, <<>>>> : text \in SendTexts} \cup {<<"", <<UserAttachment>>>>}

-----------------------------------------------------------------------------
\* Pure helpers

Min(a, b) == IF a < b THEN a ELSE b

Char(s, i) == SubSeq(s, i, i)

IsSpace(c) == c \in {" ", "\t", "\n", "\r"}

RECURSIVE trimStart(_)
trimStart(s) ==
    IF Len(s) > 0 /\ IsSpace(Char(s, 1)) THEN trimStart(SubSeq(s, 2, Len(s))) ELSE s

RECURSIVE trimEnd(_)
trimEnd(s) ==
    IF Len(s) > 0 /\ IsSpace(Char(s, Len(s))) THEN trimEnd(SubSeq(s, 1, Len(s) - 1)) ELSE s

trim(s) == trimEnd(trimStart(s))

\* a slice that keeps the whole string
sliceWhole(s, n) == s

\* String.prototype.slice(0, n)
slice0(s, n) == SubSeq(s, 1, Min(n, Len(s)))

IndexOf(seq, P(_)) ==
    IF \E i \in DOMAIN seq : P(seq[i])
    THEN CHOOSE i \in DOMAIN seq : P(seq[i]) /\ \A j \in 1..(i - 1) : ~P(seq[j])
    ELSE 0

Map(seq, f(_)) == [i \in DOMAIN seq |-> f(seq[i])]

\* whether sessions.find(s => s.id === id) finds a session
HasSession(ss, id) == \E i \in DOMAIN ss : ss[i].id = id

MessagesOf(ss, id) ==
    LET i == IndexOf(ss, LAMBDA s : s.id = id)
    IN  IF i = 0 THEN <<>> ELSE ss[i].messages

chatId(t) == "chat_" \o ToString(t)
msgId(t, suffix) == "msg_" \o ToString(t) \o suffix

-----------------------------------------------------------------------------
\* src/services/geminiService.ts

\* The greedy match of /^data:(.+);base64,(.+)$/ : the start of the last
\* ";base64," that leaves a non-empty mime type before it and a non-empty
\* payload after it, or 0 when the string does not match.  "." matches no
\* line terminator.
Marker == ";base64,"

NoLineBreak(s) == \A i \in 1..Len(s) : Char(s, i) \notin {"\n", "\r"}

MarkerAt(s) ==
    LET n == Len(Marker)
        ok == {k \in 7..(Len(s) - n) : SubSeq(s, k, k + n - 1) = Marker}
    IN  IF Len(s) >= 5 /\ SubSeq(s, 1, 5) = "data:" /\ NoLineBreak(s) /\ ok # {}
        THEN CHOOSE k \in ok : \A j \in ok : j <= k
        ELSE 0

cleanBase64(dataUrl) ==
    LET k == MarkerAt(dataUrl)
    IN  IF k # 0
        THEN SubSeq(dataUrl, k + Len(Marker), Len(dataUrl))
        ELSE dataUrl

InlinePart(att) ==
    [kind |-> "inlineData", mimeType |-> att.mimeType, data |-> cleanBase64(att.content)]

TextPart(text) == [kind |-> "text", mimeType |-> "", data |-> text]

\* the parts of one turn: its attachments, then its text when it is not empty
PartsOf(content, attachments) ==
    Map(attachments, InlinePart) \o (IF content # "" THEN <<TextPart(content)>> ELSE <<>>)

HistoryTurn(msg) == [role |-> msg.role, parts |-> PartsOf(msg.content, msg.attachments)]

chatHistory(history) == Map(history, HistoryTurn)

currentParts(newMessage, newAttachments) == PartsOf(newMessage, newAttachments)

\* "Message cannot be empty" is thrown before chat.sendMessage
BuilderRejects(newMessage, newAttachments) == currentParts(newMessage, newAttachments) = <<>>

\* the request chat.sendMessage issues
BuildRequest(history, newMessage, newAttachments) ==
    [history |-> chatHistory(history), message |-> currentParts(newMessage, newAttachments)]

GeneratedAttachment(imageBytes) ==
    [type |-> "image", content |-> DataUri("image/jpeg", imageBytes),
     mimeType |-> "image/jpeg", name |-> "generated_image.jpg"]

\* a resolver that returns the text as it is, without the fallback
FinalTextAsIs(responseText, generatedAttachments) == responseText

\* the fallback applied just before the resolver returns
FinalText(responseText, generatedAttachments) ==
    IF responseText = "" /\ generatedAttachments = <<>> THEN NoResponseText ELSE responseText

-----------------------------------------------------------------------------
\* src/App.tsx: the conversation state store

Init ==
    /\ user = NULL
    /\ isAuthLoading = FALSE
    /\ sessions = <<>>
    /\ currentSessionId = NULL
    /\ loadingState = IDLE
    /\ now = 0
    /\ turns = {}
    /\ event = [op |-> "init"]

\* Sidebar and ChatWindow are rendered only for a logged-in user
Rendered == user # NULL /\ ~isAuthLoading

newSession(t) ==
    [id |-> chatId(t), title |-> NewConversation, messages |-> <<>>, createdAt |-> t]

\* prev.map(session => session.id === id ? f(session) : session)
UpdateSession(prev, id, f(_)) ==
    [i \in DOMAIN prev |-> IF prev[i].id = id THEN f(prev[i]) ELSE prev[i]]

\* an append that makes a session for the message when none has the id
appendMessageOrCreate(prev, id, msg) ==
    IF HasSession(prev, id)
    THEN UpdateSession(prev, id, LAMBDA session : [session EXCEPT !.messages = Append(@, msg)])
    ELSE <<[id |-> id, title |-> NewConversation, messages |-> <<msg>>, createdAt |-> 0]>> \o prev

appendMessage(prev, id, msg) ==
    UpdateSession(prev, id, LAMBDA session : [session EXCEPT !.messages = Append(@, msg)])

\* sessions.filter(s => s.id !== id)
remaining(ss, id) == SelectSeq(ss, LAMBDA s : s.id # id)

\* the loading values a suspended turn has seen, without repetitions
Observe(trace, v) == IF trace[Len(trace)] = v THEN trace ELSE Append(trace, v)

ObserveAll(ts, v) == {[t EXCEPT !.trace = Observe(@, v)] : t \in ts}

handleLogin ==
    /\ user = NULL
    /\ ~isAuthLoading
    /\ isAuthLoading' = TRUE
    /\ event' = [op |-> "handleLogin"]
    /\ UNCHANGED <<user, sessions, currentSessionId, loadingState, now, turns>>

\* the continuation of handleLogin after its timer
loginDone ==
    /\ isAuthLoading
    /\ user' = MOCK_USER
    /\ isAuthLoading' = FALSE
    /\ event' = [op |-> "loginDone"]
    /\ UNCHANGED <<sessions, currentSessionId, loadingState, now, turns>>

\* a logout that leaves the selection alone
handleLogoutKeepsSelection ==
    /\ Rendered
    /\ user' = NULL
    /\ sessions' = <<>>
    /\ event' = [op |-> "handleLogout"]
    /\ UNCHANGED <<isAuthLoading, currentSessionId, loadingState, now, turns>>

handleLogout ==
    /\ Rendered
    /\ user' = NULL
    /\ sessions' = <<>>
    /\ currentSessionId' = NULL
    /\ event' = [op |-> "handleLogout"]
    /\ UNCHANGED <<isAuthLoading, loadingState, now, turns>>

\* a create that puts the new session at the end of the list
createNewChatAtTail ==
    /\ Rendered
    /\ now < MaxClock
    /\ now' = now + 1
    /\ sessions' = sessions \o <<newSession(now')>>
    /\ currentSessionId' = chatId(now')
    /\ event' = [op |-> "createNewChat", id |-> chatId(now')]
    /\ UNCHANGED <<user, isAuthLoading, loadingState, turns>>

createNewChat ==
    /\ Rendered
    /\ now < MaxClock
    /\ now' = now + 1
    /\ sessions' = <<newSession(now')>> \o sessions
    /\ currentSessionId' = chatId(now')
    /\ event' = [op |-> "createNewChat", id |-> chatId(now')]
    /\ UNCHANGED <<user, isAuthLoading, loadingState, turns>>

handleRenameChat(ss, id, newTitle) ==
    UpdateSession(ss, id, LAMBDA session : [session EXCEPT !.title = newTitle])

\* Sidebar.saveRename: the rename box of a listed session is confirmed
saveRename(sessionId, editTitle) ==
    /\ Rendered
    /\ sessions' = IF trim(editTitle) # ""
                   THEN handleRenameChat(sessions, sessionId, trim(editTitle))
                   ELSE sessions
    /\ event' = [op |-> "saveRename", id |-> sessionId, title |-> editTitle]
    /\ UNCHANGED <<user, isAuthLoading, currentSessionId, loadingState, now, turns>>

\* a delete that leaves the selection alone
handleDeleteChatKeepsSelection(id) ==
    /\ Rendered
    /\ sessions' = remaining(sessions, id)
    /\ event' = [op |-> "handleDeleteChat", id |-> id, wasCurrent |-> currentSessionId = id,
                 index |-> IndexOf(sessions, LAMBDA s : s.id = id)]
    /\ UNCHANGED <<user, isAuthLoading, currentSessionId, loadingState, now, turns>>

handleDeleteChat(id) ==
    /\ Rendered
    /\ sessions' = remaining(sessions, id)
    /\ currentSessionId' =
          IF currentSessionId = id
          THEN (IF Len(remaining(sessions, id)) > 0 THEN remaining(sessions, id)[1].id ELSE NULL)
          ELSE currentSessionId
    /\ event' = [op |-> "handleDeleteChat", id |-> id, wasCurrent |-> currentSessionId = id,
                 index |-> IndexOf(sessions, LAMBDA s : s.id = id)]
    /\ UNCHANGED <<user, isAuthLoading, loadingState, now, turns>>

onSelectSession(id) ==
    /\ Rendered
    /\ currentSessionId' = id
    /\ event' = [op |-> "onSelectSession", id |-> id]
    /\ UNCHANGED <<user, isAuthLoading, sessions, loadingState, now, turns>>

-----------------------------------------------------------------------------
\* src/App.tsx: the turn controller

userMessage(t, content, attachments) ==
    [id |-> msgId(t, "_u"), role |-> "user", content |-> content,
     attachments |-> attachments, timestamp |-> t]

botMessage(t, responseText, generatedAttachments) ==
    [id |-> msgId(t, "_b"), role |-> "model", content |-> responseText,
     attachments |-> generatedAttachments, timestamp |-> t]

\* errorMessage carries no attachments field; every reader treats a missing
\* list as an empty one
errorMessage(t) ==
    [id |-> msgId(t, "_err"), role |-> "model", content |-> TurnApology,
     attachments |-> <<>>, timestamp |-> t]

\* a title derived from every message that is sent
newTitleEverySend(session, content, attachments) ==
    IF content # ""
    THEN slice0(content, TitleLimit) \o (IF Len(content) > TitleLimit THEN "..." ELSE "")
    ELSE IF Len(attachments) > 0 THEN ImageAnalysis ELSE NewConversation

\* the title handleSendMessage gives the session it appends to
newTitle(session, content, attachments) ==
    IF Len(session.messages) = 0
    THEN IF content # ""
         THEN slice0(content, TitleLimit) \o (IF Len(content) > TitleLimit THEN "..." ELSE "")
         ELSE IF Len(attachments) > 0 THEN ImageAnalysis ELSE NewConversation
    ELSE session.title

\* the history handleSendMessage passes to sendMessageToGemini
contextMessages(previousMessages, newMessage) == previousMessages \o <<newMessage>>

\* a search that falls back on the last message when the id is not found
msgIndexOrLast(messages, messageId) ==
    IF \E i \in DOMAIN messages : messages[i].id = messageId
    THEN IndexOf(messages, LAMBDA m : m.id = messageId)
    ELSE Len(messages)

\* messages.findIndex(m => m.id === messageId), counting from 1; 0 when no
\* message has the id
msgIndex(messages, messageId) == IndexOf(messages, LAMBDA m : m.id = messageId)

\* an edit that resends the text without the attachments
originalAttachmentsNone(messages, k) == <<>>

\* the attachments handleEditMessage resends with the edited text
originalAttachments(messages, k) == messages[k].attachments

\* a slice that starts one message late: messages.slice(1, msgIndex)
historyBeforeFromSecond(messages, k) == SubSeq(messages, 2, k - 1)

\* the history handleEditMessage passes: messages.slice(0, msgIndex)
\* (k is msgIndex counted from 1)
historyBefore(messages, k) == SubSeq(messages, 1, k - 1)

\* an edited message rebuilt without the attachments of the original
updatedUserMessageBare(message, newContent, t) ==
    [message EXCEPT !.content = newContent, !.timestamp = t, !.attachments = <<>>]

\* the message handleEditMessage puts in place of the edited one
updatedUserMessage(message, newContent, t) ==
    [message EXCEPT !.content = newContent, !.timestamp = t]

\* a handleError that reads the current session when the turn fails
errorSessionIdAtCompletion(turn) == currentSessionId

\* the session handleError appends the apology to: the currentSessionId of
\* the render the failed turn's handler was created in
errorSessionId(turn) == turn.currentSessionId

\* a handleError that never resets the loading state
loadingStuckAtError == ERROR

\* the loading state handleError leaves
loadingAfterError == IDLE

handleError(prev, turn, t) == appendMessage(prev, errorSessionId(turn), errorMessage(t))

\* a turn suspended at chat.sendMessage
newTurn(kind, t, activeSessionId, history, content, attachments) ==
    [kind |-> kind, started |-> t,
     activeSessionId |-> activeSessionId,
     currentSessionId |-> currentSessionId,
     request |-> BuildRequest(history, content, attachments),
     pc |-> "converse",
     responseText |-> "",
     generatedAttachments |-> <<>>,
     calls |-> <<"converse">>,
     trace |-> Observe(<<loadingState>>, THINKING)]

\* the turn as the handler leaves it: suspended at the remote call, or,
\* when the builder throws, already failed without any call
leftAs(turn, content, attachments) ==
    IF BuilderRejects(content, attachments)
    THEN [turn EXCEPT !.calls = <<>>, !.pc = "failed",
                      !.trace = Observe(Observe(@, ERROR), loadingAfterError)]
    ELSE turn

\* The handler after it has updated sessions to `updated`: THINKING and
\* the remote call, or, when the builder throws, THINKING and handleError.
StartTurn(turn, updated, content, attachments) ==
    IF BuilderRejects(content, attachments)
    THEN /\ sessions' = handleError(updated, turn, turn.started)
         /\ loadingState' = loadingAfterError
         /\ turns' = ObserveAll(ObserveAll(ObserveAll(turns, THINKING), ERROR),
                                loadingAfterError)
    ELSE /\ sessions' = updated
         /\ loadingState' = THINKING
         /\ turns' = ObserveAll(turns, THINKING) \cup {turn}

\* a send that takes every selection for none
noSessionSelectedEver(id) == TRUE

\* handleSendMessage line 98: !activeSessionId
noSessionSelected(id) == id = NULL

handleSendMessage(content, attachments) ==
    LET t == now + 1
        create == noSessionSelected(currentSessionId)
        activeSessionId == IF create THEN chatId(t) ELSE currentSessionId
        withSession == IF create THEN <<newSession(t)>> \o sessions ELSE sessions
        newMessage == userMessage(t, content, attachments)
        updated == UpdateSession(withSession, activeSessionId,
                       LAMBDA session : [session EXCEPT
                           !.title = newTitle(session, content, attachments),
                           !.messages = Append(@, newMessage)])
        previousMessages == MessagesOf(sessions, activeSessionId)
        turn == newTurn("send", t, activeSessionId,
                        contextMessages(previousMessages, newMessage), content, attachments)
    IN  /\ now' = t
        /\ currentSessionId' = activeSessionId
        /\ StartTurn(turn, updated, content, attachments)
        /\ event' = [op |-> "handleSend", input |-> content, attachments |-> attachments,
                     accepted |-> TRUE, created |-> create,
                     turn |-> leftAs(turn, content, attachments)]
        /\ UNCHANGED <<user, isAuthLoading>>

handleEditMessage(messageId, newContent) ==
    LET messages == MessagesOf(sessions, currentSessionId)
        k == msgIndex(messages, messageId)
        t == now + 1
        attachments == originalAttachments(messages, k)
        before == historyBefore(messages, k)
        updated == UpdateSession(sessions, currentSessionId,
                       LAMBDA session : [session EXCEPT
                           !.messages = before \o
                               <<updatedUserMessage(messages[k], newContent, t)>>])
        turn == newTurn("edit", t, currentSessionId, before, newContent, attachments)
    IN  IF currentSessionId = NULL \/ ~HasSession(sessions, currentSessionId)
           \/ k = 0
        THEN /\ event' = [op |-> "handleSave", messageId |-> messageId,
                          editValue |-> newContent, accepted |-> TRUE, found |-> FALSE]
             /\ UNCHANGED core
        ELSE /\ now' = t
             /\ StartTurn(turn, updated, newContent, attachments)
             /\ event' = [op |-> "handleSave", messageId |-> messageId,
                          editValue |-> newContent, accepted |-> TRUE, found |-> TRUE,
                          msgIndex |-> k, discarded |-> Len(messages) - k,
                          turn |-> leftAs(turn, newContent, attachments)]
             /\ UNCHANGED <<user, isAuthLoading, currentSessionId>>

\* what a remote call answered: the call, whether it rejected, the text it
\* returned, the function it asked for and the number of images it returned
Answered(call, failed, text, tool, images) ==
    [call |-> call, failed |-> failed, text |-> text, tool |-> tool, images |-> images]

\* App.tsx lines 159-177 and 219-237: the handler resumes with the outcome
\* the resolver returned after the remote answer `answer`
Resolved(turn, answer, responseText, generatedAttachments) ==
    LET t == now + 1
        message == botMessage(t, FinalText(responseText, generatedAttachments),
                              generatedAttachments)
    IN  /\ now' = t
        /\ sessions' = appendMessage(sessions, turn.activeSessionId, message)
        /\ loadingState' = IDLE
        /\ turns' = ObserveAll(turns \ {turn}, IDLE)
        /\ event' = [op |-> "reply", message |-> message, answer |-> answer,
                     turn |-> [turn EXCEPT !.pc = "done", !.trace = Observe(@, IDLE)]]
        /\ UNCHANGED <<user, isAuthLoading, currentSessionId>>

\* App.tsx lines 178-181 and 238-241: the handler resumes in its catch
\* after the remote answer `answer` made the resolver throw
Rejected(turn, answer) ==
    LET t == now + 1
    IN  /\ now' = t
        /\ sessions' = handleError(sessions, turn, t)
        /\ loadingState' = loadingAfterError
        /\ turns' = ObserveAll(ObserveAll(turns \ {turn}, ERROR), loadingAfterError)
        /\ event' = [op |-> "apology", message |-> errorMessage(t), answer |-> answer,
                     turn |-> [turn EXCEPT !.pc = "failed",
                                   !.trace = Observe(Observe(@, ERROR), loadingAfterError)]]
        /\ UNCHANGED <<user, isAuthLoading, currentSessionId>>

\* the turn goes on to its next await after the remote answer `answer`
Suspended(turn, answer, next) ==
    /\ turns' = (turns \ {turn}) \cup {next}
    /\ event' = [op |-> "await", answer |-> answer, turn |-> next]
    /\ UNCHANGED <<user, isAuthLoading, sessions, currentSessionId, loadingState, now>>

-----------------------------------------------------------------------------
\* The UI gates in front of the turn controller

\* a gate that forgets to refuse the empty message
sendAllowedWhenIdle(input, attachments) == loadingState = IDLE

\* a gate that forgets to refuse while a turn is loading
sendAllowedWhenFilled(input, attachments) ==
    ~(trim(input) = "" /\ Len(attachments) = 0)

\* ChatWindow.handleSend line 51: whether the send goes through
sendAllowed(input, attachments) ==
    ~((trim(input) = "" /\ Len(attachments) = 0) \/ loadingState # IDLE)

\* ChatWindow.handleSend: Enter or the send button, with the composer
\* holding `input` and `attachments`
handleSend(input, attachments) ==
    /\ Rendered
    /\ now < MaxClock
    /\ Cardinality(turns) < MaxInFlight
    /\ IF sendAllowed(input, attachments)
       THEN handleSendMessage(input, attachments)
       ELSE /\ event' = [op |-> "handleSend", input |-> input, attachments |-> attachments,
                         accepted |-> FALSE]
            /\ UNCHANGED core

\* an Edit button rendered for every message
editOfferedForAll(message) == TRUE

\* MessageBubble line 387: the Edit button is rendered for user messages only
editOffered(message) == message.role = "user"

\* MessageBubble.handleSave line 224: whether the edit goes through
saveAllowed(message, editValue) == trim(editValue) # "" /\ editValue # message.content

\* MessageBubble.handleSave: the editor of a message of the current session
\* is confirmed with `editValue`
handleSave(message, editValue) ==
    /\ Rendered
    /\ now < MaxClock
    /\ Cardinality(turns) < MaxInFlight
    /\ editOffered(message)
    /\ IF saveAllowed(message, editValue)
       THEN handleEditMessage(message.id, editValue)
       ELSE /\ event' = [op |-> "handleSave", messageId |-> message.id,
                         editValue |-> editValue, accepted |-> FALSE]
            /\ UNCHANGED core

\* App.tsx line 266
currentMessages == MessagesOf(sessions, currentSessionId)

-----------------------------------------------------------------------------
\* The remote service answers a suspended turn (sendMessageToGemini resumes)

\* chat.sendMessage returns `text` and, possibly, a function call
converseReturns(turn, text, call) ==
    /\ turn.pc = "converse"
    /\ IF call = "generate_image"
       THEN Suspended(turn, Answered("converse", FALSE, text, call, 0),
                      [turn EXCEPT !.pc = "image", !.responseText = text,
                                   !.calls = Append(@, "generateImages")])
       ELSE Resolved(turn, Answered("converse", FALSE, text, call, 0), text, <<>>)

\* a failed call that is issued again
converseFailsRetries(turn) ==
    /\ turn.pc = "converse"
    /\ Suspended(turn, Answered("converse", TRUE, "", "none", 0),
                 [turn EXCEPT !.calls = Append(@, "converse")])

\* chat.sendMessage rejects, or its result cannot be read
converseFails(turn) ==
    /\ turn.pc = "converse"
    /\ Rejected(turn, Answered("converse", TRUE, "", "none", 0))

\* ai.models.generateImages returns `images`
imageReturns(turn, images) ==
    /\ turn.pc = "image"
    /\ IF Len(images) > 0
       THEN Suspended(turn, Answered("generateImages", FALSE, "", "none", Len(images)),
                      [turn EXCEPT !.pc = "followup",
                                 !.generatedAttachments = Append(@, GeneratedAttachment(images[1])),
                                 !.calls = Append(@, "functionResponse")])
       ELSE Resolved(turn, Answered("generateImages", FALSE, "", "none", 0),
                     NoImageApology, turn.generatedAttachments)

\* an image failure that escapes to the turn controller
imageFailsPropagates(turn) ==
    /\ turn.pc = "image"
    /\ Rejected(turn, Answered("generateImages", TRUE, "", "none", 0))

\* ai.models.generateImages rejects: the inner catch
imageFails(turn) ==
    /\ turn.pc = "image"
    /\ Resolved(turn, Answered("generateImages", TRUE, "", "none", 0),
                ImageErrorApology, turn.generatedAttachments)

\* a follow-up whose text is used as it is, without the confirmation
followupReturnsVerbatim(turn, text) ==
    /\ turn.pc = "followup"
    /\ Resolved(turn, Answered("functionResponse", FALSE, text, "none", 0),
                text, turn.generatedAttachments)

\* the tool-result follow-up returns `text`
followupReturns(turn, text) ==
    /\ turn.pc = "followup"
    /\ Resolved(turn, Answered("functionResponse", FALSE, text, "none", 0),
                IF text # "" THEN text ELSE ImageConfirmation, turn.generatedAttachments)

\* the tool-result follow-up rejects: the same inner catch
followupFails(turn) ==
    /\ turn.pc = "followup"
    /\ Resolved(turn, Answered("functionResponse", TRUE, "", "none", 0),
                ImageErrorApology, turn.generatedAttachments)

-----------------------------------------------------------------------------

Next ==
    \/ handleLogin
    \/ loginDone
    \/ handleLogout
    \/ createNewChat
    \/ \E i \in DOMAIN sessions, editTitle \in RenameTexts : saveRename(sessions[i].id, editTitle)
    \/ \E i \in DOMAIN sessions : handleDeleteChat(sessions[i].id)
    \/ \E i \in DOMAIN sessions : onSelectSession(sessions[i].id)
    \/ \E composed \in Composed : handleSend(composed[1], composed[2])
    \/ \E i \in DOMAIN currentMessages, editValue \in EditTexts :
           handleSave(currentMessages[i], editValue)
    \/ \E turn \in turns, text \in ReplyTexts, call \in ToolCalls : converseReturns(turn, text, call)
    \/ \E turn \in turns : converseFails(turn)
    \/ \E turn \in turns, images \in {<<>>, <<ImageBytes>>} : imageReturns(turn, images)
    \/ \E turn \in turns : imageFails(turn)
    \/ \E turn \in turns, text \in ReplyTexts : followupReturns(turn, text)
    \/ \E turn \in turns : followupFails(turn)

Spec == Init /\ [][Next]_vars

\* the remote service answers some suspended turn
Answer ==
    \E turn \in turns :
        \/ \E text \in ReplyTexts, call \in ToolCalls : converseReturns(turn, text, call)
        \/ converseFails(turn)
        \/ \E images \in {<<>>, <<ImageBytes>>} : imageReturns(turn, images)
        \/ imageFails(turn)
        \/ \E text \in ReplyTexts : followupReturns(turn, text)
        \/ followupFails(turn)

\* every remote call that was issued eventually returns or fails
FairSpec == Spec /\ WF_vars(Answer)

\* The application in the middle of a session: the user is logged in and a
\* conversation of two answered turns, the second one an attachment without
\* text, is the current session (reached by login, send "hi", reply "ok",
\* send of the attachment, reply "ok").  The clock reads 1 at the last reply;
\* the earlier messages carry the earlier times at which they were made.
EarlierConversation ==
    [id |-> chatId(-2), title |-> "hi", createdAt |-> -2,
     messages |-> << userMessage(-2, "hi", <<>>),
                     botMessage(-1, "ok", <<>>),
                     userMessage(0, "", <<UserAttachment>>),
                     botMessage(1, "ok", <<>>) >>]

InitResumed ==
    /\ user = MOCK_USER
    /\ isAuthLoading = FALSE
    /\ sessions = <<EarlierConversation>>
    /\ currentSessionId = EarlierConversation.id
    /\ loadingState = IDLE
    /\ now = 1
    /\ turns = {}
    /\ event = [op |-> "init"]

SpecResumed == InitResumed /\ [][Next]_vars

-----------------------------------------------------------------------------
\* The turn controller's edit operation called for a message that the
\* current session does not show (MessageBubble only ever calls it for a
\* message of the current session).

MissingId == "msg_gone"

\* the ids such a call can name: an id no message has, or the id of a
\* message of another session
OtherIds ==
    {MissingId} \cup
    UNION {{sessions[i].messages[j].id : j \in DOMAIN sessions[i].messages} :
               i \in {n \in DOMAIN sessions : sessions[n].id # currentSessionId}}

\* the onEditMessage prop, which is handleEditMessage
onEditMessage(messageId, newContent) ==
    /\ Rendered
    /\ now < MaxClock
    /\ Cardinality(turns) < MaxInFlight
    /\ handleEditMessage(messageId, newContent)

NextController ==
    \/ Next
    \/ \E messageId \in OtherIds, newContent \in EditTexts : onEditMessage(messageId, newContent)

SpecController == Init /\ [][NextController]_vars

-----------------------------------------------------------------------------
\* Conversations whose messages include texts at and over the title limit.

\* a text of exactly TitleLimit characters and one of one more
LongText == "abcdefghijklmnopqrstuvwxyzABCD"
LongerText == LongText \o "E"

TitleTexts == SendTexts \cup {LongText, LongerText}

NextTitles ==
    \/ handleLogin
    \/ loginDone
    \/ createNewChat
    \/ \E text \in TitleTexts, attachments \in {<<>>, <<UserAttachment>>} :
           handleSend(text, attachments)
    \/ \E turn \in turns, text \in ReplyTexts : converseReturns(turn, text, "none")

SpecTitles == Init /\ [][NextTitles]_vars

-----------------------------------------------------------------------------
\* The request builder on its own: sendMessageToGemini is called with a
\* history, a text and attachments, and builds its request or throws.

\* the messages a history can hold: a text, an attachment without text, a
\* model reply, and a message with neither text nor attachments
HistoryMessages ==
    { userMessage(0, "hi", <<>>),
      userMessage(0, "", <<UserAttachment>>),
      botMessage(0, "ok", <<>>),
      botMessage(0, "", <<>>) }

SeqsUpTo(S, n) == UNION {[1..k -> S] : k \in 0..n}

InitBuilder ==
    /\ user = MOCK_USER
    /\ isAuthLoading = FALSE
    /\ sessions = <<>>
    /\ currentSessionId = NULL
    /\ loadingState = IDLE
    /\ now = 0
    /\ turns = {}
    /\ \E history \in SeqsUpTo(HistoryMessages, MaxHistory), composed \in Composed :
           event = [op |-> "sendMessageToGemini", history |-> history,
                    newMessage |-> composed[1], newAttachments |-> composed[2]]

\* geminiService.ts lines 62-124: up to the throw or to chat.sendMessage
sendMessageToGemini ==
    /\ event.op = "sendMessageToGemini"
    /\ event' = IF BuilderRejects(event.newMessage, event.newAttachments)
                THEN [op |-> "thrown", history |-> event.history]
                ELSE [op |-> "request", history |-> event.history,
                      request |-> BuildRequest(event.history, event.newMessage,
                                               event.newAttachments)]
    /\ UNCHANGED core

SpecBuilder == InitBuilder /\ [][sendMessageToGemini]_vars

-----------------------------------------------------------------------------
\* An attachment through the request builder and back: the builder
\* transmits the attachment as an inlineData part, and a service that
\* echoes the part has its answer wrapped as a data URI again.

MimeTypes ==
    {"image/png", "image/jpeg", "audio/webm;codecs=opus", "text/plain",
     "application/pdf", "application/octet-stream"}

\* base64 payloads: of no bytes, of one, two and three bytes
Payloads == {"", "QQ==", "QUI=", "QUJD", "aGk=", "/+8="}

InitRoundTrip ==
    /\ user = MOCK_USER
    /\ isAuthLoading = FALSE
    /\ sessions = <<>>
    /\ currentSessionId = NULL
    /\ loadingState = IDLE
    /\ now = 0
    /\ turns = {}
    /\ \E mime \in MimeTypes, payload \in Payloads :
           event = [op |-> "attached", mime |-> mime, payload |-> payload,
                    attachment |-> [type |-> "file", content |-> DataUri(mime, payload),
                                    mimeType |-> mime, name |-> "f"]]

\* geminiService.ts lines 104-111: the attachment becomes a part
transmit ==
    /\ event.op = "attached"
    /\ event' = [event EXCEPT !.op = "transmitted"] @@ [part |-> InlinePart(event.attachment)]
    /\ UNCHANGED core

\* the echoed part is wrapped as at geminiService.ts line 151
echo ==
    /\ event.op = "transmitted"
    /\ event' = [event EXCEPT !.op = "echoed"]
                    @@ [content |-> DataUri(event.part.mimeType, event.part.data)]
    /\ UNCHANGED core

NextRoundTrip == transmit \/ echo

SpecRoundTrip == InitRoundTrip /\ [][NextRoundTrip]_vars

-----------------------------------------------------------------------------
\* Properties

Last(seq) == seq[Len(seq)]

IsPrefix(a, b) == Len(a) <= Len(b) /\ SubSeq(b, 1, Len(a)) = a

\* the step is the completion of a turn: its reply or its apology
Completes == event'.op \in {"reply", "apology"}

IsApology(m) == m.role = "model" /\ m.content = TurnApology /\ m.attachments = <<>>

\* C1: when the remote call of a turn fails and the turn's target session
\* is still in the list, the loading state has gone IDLE, THINKING, ERROR,
\* IDLE over the turn and the target session has gained exactly one model
\* message, the canned apology without attachments.
C1_FailedTurnApologises ==
    [][(event'.op = "apology" /\ HasSession(sessions, event'.turn.activeSessionId)) =>
         LET target == event'.turn.activeSessionId
         IN  /\ event'.turn.trace = <<IDLE, THINKING, ERROR, IDLE>>
             /\ IsApology(event'.message)
             /\ MessagesOf(sessions', target)
                    = Append(MessagesOf(sessions, target), event'.message)]_vars

\* C2: at most one turn is suspended at a remote call at any time.
C2_OneTurnOutstanding == Cardinality(turns) <= 1

\* C3: the completion of a turn, reply or apology, leaves the list of
\* sessions as it is (none added, none re-created, none reordered) and
\* changes no session but the one whose id the turn captured when it began.
C3_OnlyCapturedSession ==
    [][Completes =>
         /\ Len(sessions') = Len(sessions)
         /\ \A i \in DOMAIN sessions :
                /\ sessions'[i].id = sessions[i].id
                /\ sessions[i].id # event'.turn.activeSessionId
                       => sessions'[i] = sessions[i]]_vars

\* C3 happens: the apology of a failed edit has landed in the session the
\* edit captured while another session is the current one.
C3_Witness ==
    /\ event.op = "apology"
    /\ event.turn.kind = "edit"
    /\ currentSessionId \notin {NULL, event.turn.activeSessionId}
    /\ HasSession(sessions, event.turn.activeSessionId)
    /\ Last(MessagesOf(sessions, event.turn.activeSessionId)) = event.message

\* the step is an edit that found its message and went through
Edits == event'.op = "handleSave" /\ event'.accepted /\ event'.found

\* C4: in every step, the message list of every session that is still in
\* the list is the old list, or the old list with messages appended, or, in
\* an edit of the message at position k, the old messages before position k
\* followed by the edited message.
C4_AppendOnlyButEdit ==
    [][\A i \in DOMAIN sessions, j \in DOMAIN sessions' :
           sessions'[j].id = sessions[i].id =>
               LET old == sessions[i].messages
                   new == sessions'[j].messages
               IN  \/ IsPrefix(old, new)
                   \/ /\ Edits
                      /\ \E k \in DOMAIN old :
                             /\ old[k].id = event'.messageId
                             /\ Len(new) = k
                             /\ SubSeq(new, 1, k - 1) = SubSeq(old, 1, k - 1)
                             /\ new[k].id = old[k].id]_vars

\* C4 happens: an edit of the third message has discarded the reply after it.
C4_Witness ==
    /\ event.op = "handleSave" /\ event.accepted /\ event.found
    /\ event.msgIndex = 3
    /\ event.discarded = 1
    /\ Len(currentMessages) = 3

\* C5: an edit of the user message at position k of the current session
\* leaves that session with the k messages before it unchanged, then the
\* message with its id, role and attachments but the new content, and
\* nothing after it; the list of sessions and every other session are
\* unchanged.
C5_EditReplacesAndTruncates ==
    [][Edits =>
         LET old == MessagesOf(sessions, currentSessionId)
             new == MessagesOf(sessions', currentSessionId)
             k == IndexOf(old, LAMBDA m : m.id = event'.messageId)
         IN  /\ k > 0
             /\ old[k].role = "user"
             /\ Len(new) = k
             /\ SubSeq(new, 1, k - 1) = SubSeq(old, 1, k - 1)
             /\ new[k].id = old[k].id
             /\ new[k].role = old[k].role
             /\ new[k].attachments = old[k].attachments
             /\ new[k].content = event'.editValue
             /\ currentSessionId' = currentSessionId
             /\ Len(sessions') = Len(sessions)
             /\ \A i \in DOMAIN sessions :
                    /\ sessions'[i].id = sessions[i].id
                    /\ sessions'[i].title = sessions[i].title
                    /\ sessions[i].id # currentSessionId => sessions'[i] = sessions[i]]_vars

\* C5 happens: with two sessions in the list, the third message of the
\* current one, which carries an attachment, has been edited and the reply
\* after it discarded.
C5_Witness ==
    /\ event.op = "handleSave" /\ event.accepted /\ event.found
    /\ event.msgIndex = 3
    /\ event.discarded = 1
    /\ Len(sessions) = 2
    /\ Len(currentMessages) = 3
    /\ currentMessages[3].attachments # <<>>
    /\ currentMessages[3].content = event.editValue

\* the step is a send that went through and issued its request
Sends == event'.op = "handleSend" /\ event'.accepted /\ event'.turn.pc = "converse"

\* C6: the request of a send has as history the target session's messages
\* as they stood before the send appended the new message, and as new turn
\* the parts of the new message.
C6_HistoryBeforeAppend ==
    [][Sends =>
         /\ event'.turn.request.history
                = chatHistory(MessagesOf(sessions, event'.turn.activeSessionId))
         /\ event'.turn.request.message
                = currentParts(event'.input, event'.attachments)]_vars

\* C7: a send with empty text and no attachments is refused: it leaves the
\* sessions, the selection, the loading state, the clock and the suspended
\* turns as they are, so no remote call is issued and an IDLE loading state
\* stays IDLE.
C7_EmptySendRefused ==
    [][(event'.op = "handleSend" /\ event'.input = "" /\ event'.attachments = <<>>) =>
         /\ ~event'.accepted
         /\ UNCHANGED core]_vars

\* C7 happens: the empty message was sent while the loading state was IDLE.
C7_Witness ==
    /\ event.op = "handleSend"
    /\ event.input = "" /\ event.attachments = <<>>
    /\ ~event.accepted
    /\ loadingState = IDLE

\* C8: a send invoked while the loading state is not IDLE changes nothing.
C8_SendWhileLoadingIsNoOp ==
    [][(event'.op = "handleSend" /\ loadingState # IDLE) =>
         /\ ~event'.accepted
         /\ UNCHANGED core]_vars

\* C8 happens: a message that could be sent was refused while a turn was
\* loading.
C8_Witness ==
    /\ event.op = "handleSend"
    /\ trim(event.input) # ""
    /\ ~event.accepted
    /\ loadingState = THINKING
    /\ turns # {}

\* C9: when the remote call of a turn succeeds and the turn's target
\* session is still in the list, the loading state has gone IDLE, THINKING,
\* IDLE over the turn and the target session has gained exactly one model
\* message, carrying the returned text and attachments.
C9_SuccessfulTurnReplies ==
    [][(event'.op = "reply" /\ HasSession(sessions, event'.turn.activeSessionId)) =>
         LET target == event'.turn.activeSessionId
         IN  /\ event'.turn.trace = <<IDLE, THINKING, IDLE>>
             /\ event'.message.role = "model"
             /\ MessagesOf(sessions', target)
                    = Append(MessagesOf(sessions, target), event'.message)]_vars

\* C10: whenever a turn is suspended or the loading state is not IDLE, the
\* loading state is IDLE again later.
C10_LoadingReturnsToIdle ==
    (turns # {} \/ loadingState # IDLE) ~> (loadingState = IDLE)

\* C10 happens: a turn whose image tool failed has completed and the
\* loading state is IDLE.
C10_Witness ==
    /\ event.op = "reply"
    /\ event.turn.calls = <<"converse", "generateImages">>
    /\ event.message.content = ImageErrorApology
    /\ loadingState = IDLE

\* the message the completion made is the last one of the turn's target
\* session, when that session is in the list
Delivered ==
    HasSession(sessions, event.turn.activeSessionId)
        /\ Last(MessagesOf(sessions, event.turn.activeSessionId)) = event.message

C12_ImageToolFailureRecovered ==
    [][(Completes /\ event'.answer.call = "generateImages") =>
         /\ event'.op = "reply"
         /\ event'.message.attachments = <<>>
         /\ event'.message.content =
                (IF event'.answer.failed THEN ImageErrorApology ELSE NoImageApology)
         /\ loadingState' = IDLE
         /\ \E turn \in turns :
                /\ turn.started = event'.turn.started
                /\ turn.pc = "image"
                /\ event'.turn.trace = Observe(turn.trace, IDLE)]_vars

\* C12 happens: the image backend returned no image and the reply with the
\* canned text is in the session, the loading state IDLE.
C12_Witness ==
    /\ event.op = "reply"
    /\ event.answer.call = "generateImages" /\ ~event.answer.failed
    /\ event.answer.images = 0
    /\ event.message.content = NoImageApology
    /\ event.message.attachments = <<>>
    /\ loadingState = IDLE
    /\ Delivered

NonEmpty(m) == m.content # "" \/ m.attachments # <<>>

\* C13: the message of every reply has a non-empty text or an attachment;
\* when the remote service returned no text and no image was generated the
\* text is the canned "no response" text; and no model message of any
\* session has an empty text and no attachments.
C13_NoEmptyOutcome ==
    /\ event.op = "reply" =>
           /\ NonEmpty(event.message)
           /\ (event.answer.call = "converse" /\ event.answer.text = "")
                  => event.message.content = NoResponseText
    /\ \A i \in DOMAIN sessions : \A j \in DOMAIN sessions[i].messages :
           sessions[i].messages[j].role = "model" => NonEmpty(sessions[i].messages[j])

\* C13 happens: the remote service answered with no text and no tool call,
\* and the reply with the canned text is in the session.
C13_Witness ==
    /\ event.op = "reply"
    /\ event.answer.call = "converse"
    /\ event.answer.text = ""
    /\ event.message.content = NoResponseText
    /\ event.message.attachments = <<>>
    /\ Delivered

C15_EditRequest ==
    [][Edits =>
         LET old == MessagesOf(sessions, currentSessionId)
             k == event'.msgIndex
             request == event'.turn.request
         IN  /\ event'.turn.pc = "converse"
             /\ event'.turn \in turns'
             /\ old[k].id = event'.messageId
             /\ request.history = chatHistory(SubSeq(old, 1, k - 1))
             /\ Len(request.history) = k - 1
             /\ request.message = currentParts(event'.editValue, old[k].attachments)]_vars

\* C15 happens: the third of four messages, which carries an attachment,
\* was edited; the request has the two messages before it as history and
\* the attachment and the new text as the new turn.
C15_Witness ==
    /\ event.op = "handleSave" /\ event.accepted /\ event.found
    /\ event.msgIndex = 3
    /\ event.discarded = 1
    /\ Len(event.turn.request.history) = 2
    /\ Len(event.turn.request.message) = 2
    /\ event.turn.request.message[1].kind = "inlineData"
    /\ event.turn.request.message[2].data = event.editValue

\* C16: an edit that names a message id the current session does not have,
\* or is made while no session is current, leaves the sessions, the
\* selection, the loading state, the clock and the suspended turns as they
\* are, so no remote call is issued.
C16_EditOfMissingIsNoOp ==
    [][(/\ event'.op = "handleSave"
        /\ event'.accepted
        /\ \/ currentSessionId = NULL
           \/ \A i \in DOMAIN currentMessages : currentMessages[i].id # event'.messageId) =>
         /\ ~event'.found
         /\ UNCHANGED core]_vars

\* C16 happens: an edit named an id that the current session, which has
\* messages, does not have.
C16_Witness ==
    /\ event.op = "handleSave" /\ event.accepted /\ ~event.found
    /\ currentSessionId # NULL
    /\ currentMessages # <<>>
    /\ \A i \in DOMAIN currentMessages : currentMessages[i].id # event.messageId

\* C17: creating a session gives a list whose head is the new session,
\* without messages, and whose tail is the old list, unchanged and in the
\* same order; the new session is the current one.
C17_CreatePrepends ==
    [][event'.op = "createNewChat" =>
         /\ Len(sessions') = Len(sessions) + 1
         /\ sessions'[1].id = event'.id
         /\ sessions'[1].messages = <<>>
         /\ Tail(sessions') = sessions
         /\ currentSessionId' = sessions'[1].id]_vars

\* C17 happens: a session was created in front of a session that has
\* messages, and it is the current one.
C17_Witness ==
    /\ event.op = "createNewChat"
    /\ Len(sessions) >= 2
    /\ sessions[1].id = event.id
    /\ sessions[2].messages # <<>>
    /\ currentSessionId = event.id

\* C18: deleting a session leaves the list of the other sessions, unchanged
\* and in the same order; when the deleted session was the current one the
\* first session of what remains becomes current, or none when nothing
\* remains; otherwise the selection is unchanged.
C18_DeleteSelectsFirstRemaining ==
    [][event'.op = "handleDeleteChat" =>
         LET rest == SelectSeq(sessions, LAMBDA s : s.id # event'.id)
         IN  /\ sessions' = rest
             /\ Len(sessions') = Len(sessions) - 1
             /\ currentSessionId' =
                    IF currentSessionId # event'.id THEN currentSessionId
                    ELSE IF rest = <<>> THEN NULL ELSE rest[1].id]_vars

\* C18 happens: the current session, which was not the head of the list,
\* was deleted and the head of the remaining list is current.
C18_Witness ==
    /\ event.op = "handleDeleteChat"
    /\ event.wasCurrent
    /\ event.index = 2
    /\ sessions # <<>>
    /\ currentSessionId = sessions[1].id

\* C19: a send made while no session is selected puts one new session in
\* front of the list and makes it current; that session holds the new user
\* message and nothing else while the remote call is outstanding, and the
\* sessions that were there are unchanged.  A send made while a session is
\* selected leaves the number and the order of the sessions and the
\* selection as they are.
C19_SendCreatesSessionWhenNone ==
    [][(event'.op = "handleSend" /\ event'.accepted) =>
         IF currentSessionId = NULL
         THEN /\ event'.created
              /\ Len(sessions') = Len(sessions) + 1
              /\ Tail(sessions') = sessions
              /\ currentSessionId' = sessions'[1].id
              /\ event'.turn.activeSessionId = sessions'[1].id
              /\ event'.turn \in turns'
              /\ Len(sessions'[1].messages) = 1
              /\ sessions'[1].messages[1].role = "user"
              /\ sessions'[1].messages[1].content = event'.input
              /\ sessions'[1].messages[1].attachments = event'.attachments
         ELSE /\ ~event'.created
              /\ Len(sessions') = Len(sessions)
              /\ \A i \in DOMAIN sessions : sessions'[i].id = sessions[i].id
              /\ currentSessionId' = currentSessionId]_vars

\* C19 happens: a send created its session, which is current and holds the
\* user message while the call is outstanding.
C19_Witness ==
    /\ event.op = "handleSend" /\ event.accepted /\ event.created
    /\ Len(sessions) = 1
    /\ currentSessionId = sessions[1].id
    /\ Len(sessions[1].messages) = 1
    /\ sessions[1].messages[1].content = "hi"
    /\ event.turn \in turns
    /\ loadingState = THINKING

\* C20: in every step, the title of a session that stays in the list
\* changes only when the session is renamed or when a send appends the
\* first message of that session.
C20_TitleSetOnceThenRenameOnly ==
    [][\A i \in DOMAIN sessions, j \in DOMAIN sessions' :
           (sessions'[j].id = sessions[i].id /\ sessions'[j].title # sessions[i].title) =>
               \/ event'.op = "saveRename" /\ event'.id = sessions[i].id
               \/ /\ event'.op = "handleSend" /\ event'.accepted
                  /\ event'.turn.activeSessionId = sessions[i].id
                  /\ sessions[i].messages = <<>>
                  /\ Len(sessions'[j].messages) = 1]_vars

\* C20 happens: a third message, with another text, was sent to a session
\* and the session still has the title derived from its first message.
C20_Witness ==
    /\ event.op = "handleSend" /\ event.accepted
    /\ HasSession(sessions, event.turn.activeSessionId)
    /\ LET target == MessagesOf(sessions, event.turn.activeSessionId)
       IN  /\ Len(target) = 3
           /\ target[1].content = "hi"
           /\ target[3].content # "hi"
           /\ \E i \in DOMAIN sessions :
                  sessions[i].id = event.turn.activeSessionId /\ sessions[i].title = "hi"

\* the step is a send that went through and whose target had no messages
FirstSend ==
    /\ event'.op = "handleSend" /\ event'.accepted
    /\ MessagesOf(sessions, event'.turn.activeSessionId) = <<>>

TitleOf(ss, id) == ss[IndexOf(ss, LAMBDA session : session.id = id)].title

\* C21: a send that appends the first message of a session leaves the
\* session with the text as title when the text has at most 30 characters,
\* with the first 30 characters of the text followed by "..." when it is
\* longer, and with a fallback label when the text is empty.
C21_TitleFromFirstMessage ==
    [][FirstSend =>
         LET text == event'.input
             title == TitleOf(sessions', event'.turn.activeSessionId)
         IN  /\ Len(MessagesOf(sessions', event'.turn.activeSessionId)) = 1
             /\ (text # "" /\ Len(text) <= 30) => title = text
             /\ Len(text) > 30 => title = SubSeq(text, 1, 30) \o "..."
             /\ text = "" => title \in {ImageAnalysis, NewConversation}]_vars

\* C21 happens: a text of 31 characters was sent as the first message of a
\* session created before, and the title is its first 30 characters and
\* the ellipsis.
C21_Witness ==
    /\ event.op = "handleSend" /\ event.accepted /\ ~event.created
    /\ event.input = LongerText
    /\ Len(MessagesOf(sessions, event.turn.activeSessionId)) = 1
    /\ TitleOf(sessions, event.turn.activeSessionId) = LongText \o "..."

\* C22: an attachment whose content is the data URI of a MIME type and a
\* base64 payload is transmitted as that payload with that MIME type, and
\* wrapping the echoed MIME type and payload as a data URI gives the
\* content of the attachment back.
C22_AttachmentRoundTrip ==
    /\ event.op \in {"transmitted", "echoed"} =>
           /\ event.part.data = event.payload
           /\ event.part.mimeType = event.mime
    /\ event.op = "echoed" => event.content = event.attachment.content

RemoteOrder == <<"converse", "generateImages", "functionResponse">>

\* the suspended turn that the step resumes
Resumed(turn) == turn \in turns /\ turn.started = event'.turn.started

\* C23: every step in which a remote call of a turn is answered keeps the
\* calls of the turn a prefix of converse, generateImages,
\* functionResponse; the answered call is the last one issued; a new call
\* is issued only as generateImages after a converse that asked for
\* generate_image, or as functionResponse after a generateImages that
\* returned an image; a converse that asked for no image completes the turn
\* with its text (the canned text when it is empty) after that single call;
\* and a call that failed is followed by no further call: the turn
\* completes and is no longer suspended.
C23_RemoteCallOrder ==
    [][event'.op \in {"await", "reply", "apology"} =>
         \E turn \in turns :
             LET answer == event'.answer
                 after == event'.turn
             IN  /\ Resumed(turn)
                 /\ IsPrefix(after.calls, RemoteOrder)
                 /\ answer.call = Last(turn.calls)
                 /\ IF event'.op = "await"
                    THEN /\ ~answer.failed
                         /\ after \in turns'
                         /\ \/ /\ answer.call = "converse" /\ answer.tool = "generate_image"
                               /\ after.calls = Append(turn.calls, "generateImages")
                            \/ /\ answer.call = "generateImages" /\ answer.images > 0
                               /\ after.calls = Append(turn.calls, "functionResponse")
                    ELSE /\ after.calls = turn.calls
                         /\ \A other \in turns' : other.started # turn.started
                 /\ answer.failed => event'.op # "await"
                 /\ (answer.call = "converse" /\ ~answer.failed
                         /\ answer.tool # "generate_image") =>
                        /\ event'.op = "reply"
                        /\ after.calls = <<"converse">>
                        /\ event'.message.content =
                               (IF answer.text # "" THEN answer.text ELSE NoResponseText)]_vars

\* C23 happens: a turn completed after its three calls, in order, with the
\* text of the follow-up.
C23_Witness ==
    /\ event.op = "reply"
    /\ event.turn.calls = RemoteOrder
    /\ event.answer.call = "functionResponse" /\ ~event.answer.failed
    /\ event.answer.text = "ok"
    /\ event.message.content = "ok"
    /\ \A other \in turns : other.started # event.turn.started

\* C24: every edit that goes through is the edit of a message with role
\* user, and in every step each model message that stays in its session
\* stays as it was appended.
C24_OnlyUserMessagesEdited ==
    [][/\ Edits => MessagesOf(sessions, currentSessionId)[event'.msgIndex].role = "user"
       /\ \A i \in DOMAIN sessions, j \in DOMAIN sessions' :
              sessions'[j].id = sessions[i].id =>
                  \A a \in DOMAIN sessions[i].messages, b \in DOMAIN sessions'[j].messages :
                      (/\ sessions[i].messages[a].id = sessions'[j].messages[b].id
                       /\ sessions[i].messages[a].role = "model") =>
                          sessions'[j].messages[b] = sessions[i].messages[a]]_vars

\* C24 happens: the user message after a model reply was edited, and the
\* reply before it is as it was.
C24_Witness ==
    /\ event.op = "handleSave" /\ event.accepted /\ event.found
    /\ event.msgIndex = 3
    /\ currentMessages[3].role = "user"
    /\ currentMessages[3].content = "yo"
    /\ currentMessages[2] = botMessage(-1, "ok", <<>>)

\* C25: the loading state is IDLE only when no turn is suspended at a
\* remote call.
C25_IdleOnlyWhenNoTurn == loadingState = IDLE => turns = {}

Alternates(messages) ==
    \/ messages = <<>>
    \/ /\ messages[1].role = "user"
       /\ Last(messages).role = "model"
       /\ \A i \in 1..(Len(messages) - 1) : messages[i].role # messages[i + 1].role

\* C26: whenever the loading state is IDLE, the messages of every session
\* that has messages start with a user message, end with a model message,
\* and no two consecutive messages have the same role.
C26_AlternatesWhenIdle ==
    loadingState = IDLE => \A i \in DOMAIN sessions : Alternates(sessions[i].messages)

\* C27: a reply whose text is one of the two image apologies carries no
\* attachments.
C27_ImageApologyWithoutAttachment ==
    (event.op = "reply" /\ event.message.content \in {ImageErrorApology, NoImageApology})
        => event.message.attachments = <<>>

\* C28: the current session id is none or the id of a session of the list.
C28_SelectionInList == currentSessionId = NULL \/ HasSession(sessions, currentSessionId)

\* C28 happens: the only session, which was current, was deleted and no
\* session is current.
C28_Witness ==
    /\ event.op = "handleDeleteChat"
    /\ event.wasCurrent
    /\ sessions = <<>>
    /\ currentSessionId = NULL

\* a title that only a rename can have given
RenamedTitles == {trim(editTitle) : editTitle \in RenameTexts} \ {""}

\* C29: a session that carries a title given by a rename keeps that title
\* in every step but a rename of that session.
C29_RenameIsKept ==
    [][\A i \in DOMAIN sessions, j \in DOMAIN sessions' :
           (/\ sessions'[j].id = sessions[i].id
            /\ sessions[i].title \in RenamedTitles
            /\ sessions'[j].title # sessions[i].title) =>
               event'.op = "saveRename" /\ event'.id = sessions[i].id]_vars

\* C30: a logout leaves no session and no selection, and while the list is
\* empty the completion of a turn leaves it empty and the selection none:
\* only a create or a send puts a session in an empty list.
C30_LogoutDropsEverything ==
    [][/\ event'.op = "handleLogout" => sessions' = <<>> /\ currentSessionId' = NULL
       /\ (Completes /\ sessions = <<>>) =>
              sessions' = <<>> /\ currentSessionId' = currentSessionId
       /\ (sessions = <<>> /\ sessions' # <<>>) =>
              /\ event'.op \in {"createNewChat", "handleSend"}
              /\ Len(sessions') = 1]_vars

\* C30 happens: the reply of a turn that was in flight at the logout has
\* arrived, and there is no session and no selection.
C30_Witness ==
    /\ event.op = "reply"
    /\ user = NULL
    /\ sessions = <<>>
    /\ currentSessionId = NULL
    /\ turns = {}

====
